---- MODULE Spec2Model ----
(***************************************************************************)
(* Model of scripts/workflow_engine.py: WorkflowEngine.execute() and the   *)
(* handlers it calls, as a state machine over one engine object.           *)
(*                                                                         *)
(* The workflow document is read-only input.  Its top level is drawn when  *)
(* execute() is called; each phase of `phases` is drawn when the for loop  *)
(* of _execute_phases reaches it (the loop reads every phase exactly once  *)
(* and never looks back), and the flat `steps` list when execute() reads   *)
(* it.  What a tool does outside the engine (exit code, timeout, I/O       *)
(* error) is drawn at each dispatch.                                       *)
(***************************************************************************)
EXTENDS Integers, Sequences, FiniteSets, TLC

\* ------------------------------------------------------------------ bounds
MaxPhases == 2
MaxSteps == 2
MaxAttempts == 3
\* Largest sum over the phases of max_attempts * len(steps) a document has.
MaxWork == 6
\* Longest text handed to _substitute_params, longest value of a parameter
\* (both in tokens), and how many times in a row the method is applied.
MaxText == 2
MaxValue == 1
MaxPasses == 2
\* Longest `validation` list of a step handed to _execute_step on its own.
MaxRules == 2

VARIABLES
  pc,            \* position of the one thread inside execute()
  heap,          \* the WorkflowState objects created so far, by identity
  self_state,    \* engine.state: 0 is None, else an index into heap
  workflow_name, \* argument of execute()
  params,        \* argument of execute(): the set of keys of the mapping
  document,      \* the document workflow_name resolves to
  workflow,      \* local of execute(): the loaded definition, NoDocument before
  phase_idx,     \* _execute_phases: index of the phase the loop is at
  phase,         \* _execute_phases: the phase the loop is at
  attempt,       \* _execute_phases: loop variable of the retry loop
  steps,         \* _execute_steps: the step list being run
  step_idx,      \* _execute_steps: index of the step the loop is at
  caller,        \* who called _execute_steps: "phases" or "execute"
  result,        \* the ExecutionResult of the latest _execute_step
  exc,           \* the exception in flight, or raised by execute()
  trace,         \* observation of the run: calls made so far
  call,          \* one method called on its own: its arguments and returns
  process        \* main(): the exit code and what went to the error stream

vars == <<pc, heap, self_state, workflow_name, params, document, workflow,
          phase_idx, phase, attempt, steps, step_idx, caller, result, exc, trace,
          call, process>>

\* What execute() and the methods under it never touch.
outside == <<call, process>>

\* What a method called on its own never touches.
engine == <<pc, heap, self_state, workflow_name, params, document, workflow,
            phase_idx, phase, attempt, steps, step_idx, caller, result, exc,
            trace, process>>

\* ------------------------------------------------------------ enumerations
None == "None"

\* An exception is <<type, message, detail>>; NoException is "nothing raised".
NoException == <<None, None, None>>

\* class StepStatus (the two values a result ever takes)
StepStatus == {"success", "failed"}

\* class WorkflowStatus
WorkflowStatus == {"not_started", "running", "completed", "failed", "partial"}

\* @dataclass ExecutionResult; exit_code is <<>> for None, <<rc>> for an int.
\* error is None or a tag naming the text: what the engine reads of a text is
\* whether it is empty and whether it holds 'syntax' or 'error'.
ExecutionResult(status, error, exit_code) ==
  [status |-> status, error |-> error, exit_code |-> exit_code]

\* @dataclass WorkflowState, as constructed: the field defaults.
WorkflowState(name) ==
  [workflow_name |-> name, status |-> "not_started", start_time |-> None,
   end_time |-> None, current_phase |-> None,
   steps_completed |-> <<>>, steps_failed |-> <<>>]

\* ---------------------------------------------------------------- documents
ParamNames == {"issue"}
RequiredFields == <<"name", "description", "type">>

\* The top level of a document.  fields: which of name/description/type it
\* has; type: the value of `type` (None when the key is absent); required:
\* inputs.required ([] when absent); keys: which of phases/steps it has;
\* success_criteria: "unread" until execute() reads it, then "absent" or what
\* the block holds.  The phases themselves are read one by one by the loop of
\* _execute_phases, which also finds where the list ends.
Documents ==
  [exists : {TRUE}, fields : SUBSET {"name", "description", "type"},
   type : {"workflow", "agent", None}, required : SUBSET ParamNames,
   keys : SUBSET {"phases", "steps"}, success_criteria : {"unread"}]

NoDocument ==
  [exists |-> FALSE, fields |-> {}, type |-> None, required |-> {},
   keys |-> {}, success_criteria |-> "unread"]

WellFormedDocument(d) == ("type" \in d.fields) <=> (d.type # None)

\* What a success_criteria block can hold.
SuccessCriteria == {"absent", "no all_of", "all_of"}

\* Steps.  action: the step's display name; tool: the handler, "absent" when
\* the key is missing; params: "absent", a "mapping" of strings, or "ill_typed"
\* (null, or holding a non-string value); condition: "absent", or what the
\* expression is; validation: the rule list, has_validation: the key is there.
Step(action, tool, step_params, condition, has_validation, validation) ==
  [action |-> action, tool |-> tool, params |-> step_params,
   condition |-> condition, has_validation |-> has_validation,
   validation |-> validation]

StepNames == <<"A", "B", "C", "D", "E", "F">>

\* The kinds of step the scheduler is run on (position i of a list is named
\* StepNames[i]).
StepKinds(name) ==
  { Step(name, "Bash", "mapping", "absent", FALSE, <<>>),
    Step(name, "Bash", "mapping", "True", TRUE, <<"exit_code_equals_0">>),
    Step(name, "absent", "absent", "absent", FALSE, <<>>),
    Step(name, "Edit", "absent", "False", FALSE, <<>>),
    Step(name, "Read", "mapping", "malformed", FALSE, <<>>),
    Step(name, "Write", "mapping", "non_string", FALSE, <<>>) }

StepLists ==
  UNION { { s \in [1..n -> UNION {StepKinds(StepNames[i]) : i \in 1..n}] :
              \A i \in 1..n : s[i].action = StepNames[i] } : n \in 0..MaxSteps }

PhaseNames == <<"P1", "P2", "P3", "P4">>

\* A phase: max_attempts (0 and -1 are values a document can hold), its steps, and
\* failure_actions: "unread" until the retry loop reads the key, then "absent",
\* "escalate" (a list of escalate_to mappings) or "ill_typed" (an entry that
\* is no mapping, on which the handler raises).
Phases(i) ==
  [name : {PhaseNames[i]}, max_attempts : (0 - 1)..MaxAttempts, steps : StepLists,
   failure_actions : {"unread"}]

FailureActions == {"absent", "escalate", "ill_typed"}

NoPhase ==
  [name |-> None, max_attempts |-> 0, steps |-> <<>>, failure_actions |-> "unread"]

Work(p) == IF p.max_attempts < 1 THEN 0 ELSE p.max_attempts * Len(p.steps)

\* The steps of a phase whose retry loop has no iteration are never looked
\* at: one list, of the greatest length, stands for all of them.
UnreadSteps ==
  { [i \in 1..MaxSteps |->
       Step(StepNames[i], "Bash", "mapping", "absent", FALSE, <<>>)] }

NoResult == ExecutionResult(None, None, <<>>)

\* ------------------------------------------------------- pure operators
\* _validate_workflow_structure: the exception it raises, or None.  The
\* fields are tested in the order name, description, type; then the type.
RECURSIVE first_missing_field(_, _)
first_missing_field(d, i) ==
  IF i > Len(RequiredFields) THEN None
  ELSE IF RequiredFields[i] \notin d.fields THEN RequiredFields[i]
  ELSE first_missing_field(d, i + 1)

\* Bug: the value of `type` is not looked at.
validate_workflow_structure_fields_only(d) ==
  IF first_missing_field(d, 1) # None
    THEN <<"ValueError", "Missing required field", first_missing_field(d, 1)>>
  ELSE NoException

validate_workflow_structure(d) ==
  IF first_missing_field(d, 1) # None
    THEN <<"ValueError", "Missing required field", first_missing_field(d, 1)>>
  ELSE IF d.type # "workflow" THEN <<"ValueError", "Invalid type", d.type>>
  ELSE NoException

\* load_workflow: the exception it raises, or None when it returns the document.
load_workflow(d) ==
  IF ~d.exists THEN <<"FileNotFoundError", "Workflow not found", None>>
  ELSE validate_workflow_structure(d)

\* Bug: the required names are read but not compared with params.
validate_inputs_unchecked(required, given) == NoException

\* _validate_inputs: the exception it raises, or None.
validate_inputs(required, given) ==
  IF \E n \in required : n \notin given
    THEN <<"ValueError", "Missing required parameter",
           CHOOSE n \in required : n \notin given>>
  ELSE NoException

\* _evaluate_condition: "True", "False", or "TypeError" when it raises.  The
\* substitution runs outside the try, so a condition that is no string raises;
\* whatever eval() raises is swallowed into False.
evaluate_condition(condition) ==
  CASE condition = "non_string" -> "TypeError"
    [] condition = "True" -> "True"
    [] condition = "False" -> "False"
    [] OTHER -> "False"

\* _substitute_params.  A text is a sequence of tokens: "x" is a stretch of
\* text the pattern \{\{\s*(\w+)\s*\}\} does not match, every other token is
\* one match of it.  No two tokens join into a match and no match spans two
\* tokens, so re.sub works token by token.
Tokens == {"x", "{{a}}", "{{ a }}", "{{b}}", "{{c}}"}

Texts(n) == UNION {[1..k -> Tokens] : k \in 0..n}

\* The mappings handed in as params: "c" is never a key.
Keys == {"a", "b"}
Mappings == UNION {[d -> Texts(MaxValue)] : d \in SUBSET Keys}

is_placeholder(token) == token # "x"

\* Bug: the whitespace around the name is kept, so a spaced name is no key.
param_name_unstripped(token) ==
  CASE token = "{{a}}" -> "a"
    [] token = "{{ a }}" -> " a "
    [] token = "{{b}}" -> "b"
    [] token = "{{c}}" -> "c"

\* line 426: match.group(1).strip()
param_name(token) ==
  CASE token \in {"{{a}}", "{{ a }}"} -> "a"
    [] token = "{{b}}" -> "b"
    [] token = "{{c}}" -> "c"

\* Bug: the text put in for a placeholder is scanned for placeholders again.
RECURSIVE rescan(_, _)
rescan(value, p) ==
  IF value = <<>> THEN <<>>
  ELSE (IF is_placeholder(Head(value)) /\ param_name(Head(value)) \in DOMAIN p
          THEN p[param_name(Head(value))]
        ELSE <<Head(value)>>) \o rescan(Tail(value), p)

replace_rescanned(token, p) ==
  IF param_name(token) \in DOMAIN p THEN rescan(p[param_name(token)], p)
  ELSE <<token>>

\* Bug: a placeholder whose name is no key is removed instead of kept.
replace_unknown_removed(token, p) ==
  IF param_name(token) \in DOMAIN p THEN p[param_name(token)] ELSE <<>>

\* line 427: str(params.get(param_name, match.group(0))); the values are
\* strings, which str() returns as they are.
replace(token, p) ==
  IF param_name(token) \in DOMAIN p THEN p[param_name(token)] ELSE <<token>>

\* line 429: re.sub walks the text once, left to right; what replace()
\* returns is put in the output and not scanned again.
RECURSIVE substitute_params(_, _)
substitute_params(text, p) ==
  IF text = <<>> THEN <<>>
  ELSE (IF is_placeholder(Head(text)) THEN replace(Head(text), p)
        ELSE <<Head(text)>>) \o substitute_params(Tail(text), p)

\* What the world outside the engine can answer to a step's handler.
Outcomes(step) ==
  CASE step.tool = "Bash" ->
         {"exit_0", "exit_1", "timeout"}
    [] step.tool = "Read" -> {"ok", "io_error"}
    [] step.tool = "Write" -> {"ok", "io_error"}
    [] step.tool = "Grep" -> {"exit_0", "exit_1", "os_error"}
    [] step.tool = "Glob" -> {"ok", "os_error"}
    [] OTHER -> {"ok"}

\* Every answer a handler is written for.
HandlerOutcomes(step) ==
  IF step.tool = "Bash"
    THEN {"exit_0", "exit_1", "exit_1_silent", "exit_1_error", "timeout",
          "os_error"}
  ELSE Outcomes(step)

\* The steps _execute_step is called with on its own: every tool the dispatch
\* names, a tool key that is absent, a tool it does not name; params absent,
\* a mapping of strings, or ill-typed; with and without a `validation` list.
Tools == {"Bash", "Read", "Grep", "Glob", "Edit", "Write", "absent", "Task"}
Rules == {"exit_code_equals_0", "no_syntax_errors", "other_rule"}
RuleLists == UNION {[1..k -> Rules] : k \in 0..MaxRules}
AllSteps ==
  { Step("A", t, ps, "absent", FALSE, <<>>) :
      t \in Tools, ps \in {"absent", "mapping", "ill_typed"} }
  \cup
  UNION { { Step("A", t, ps, "absent", TRUE, v) :
              t \in Tools, ps \in {"absent", "mapping", "ill_typed"} } :
          v \in RuleLists }

\* A handler that raises instead of returning a result.
Raised == ExecutionResult("raised", "exception text", <<>>)

execute_bash_step(step, env) ==
  CASE step.params = "ill_typed" -> Raised
    [] env = "exit_0" -> ExecutionResult("success", None, <<0>>)
    [] env = "exit_1" -> ExecutionResult("failed", "stderr text", <<1>>)
    [] env = "exit_1_silent" -> ExecutionResult("failed", "", <<1>>)
    [] env = "exit_1_error" ->
         ExecutionResult("failed", "stderr text with error", <<1>>)
    [] env = "timeout" -> ExecutionResult("failed", "Command timed out", <<>>)
    [] OTHER -> ExecutionResult("failed", "exception text", <<>>)

execute_read_step(step, env) ==
  CASE step.params # "mapping" -> Raised
    [] env = "ok" -> ExecutionResult("success", None, <<>>)
    [] OTHER -> ExecutionResult("failed", "exception text", <<>>)

execute_grep_step(step, env) ==
  CASE step.params = "ill_typed" -> Raised
    [] env = "exit_0" -> ExecutionResult("success", None, <<0>>)
    [] env = "exit_1" -> ExecutionResult("success", None, <<1>>)
    [] OTHER -> ExecutionResult("failed", "exception text", <<>>)

execute_glob_step(step, env) ==
  CASE step.params # "mapping" -> Raised
    [] env = "ok" -> ExecutionResult("success", None, <<>>)
    [] OTHER -> ExecutionResult("failed", "exception text", <<>>)

execute_edit_step(step, env) == ExecutionResult("success", None, <<>>)

execute_write_step(step, env) ==
  CASE step.params = "ill_typed" -> Raised
    [] env = "ok" -> ExecutionResult("success", None, <<>>)
    [] OTHER -> ExecutionResult("failed", "exception text", <<>>)

\* result.error is truthy and holds 'syntax' or 'error'
has_error_marker(error) == error = "stderr text with error"

\* Bug: a result that has no exit code passes exit_code_equals_0.
RECURSIVE validate_step_result_none_passes(_, _, _)
validate_step_result_none_passes(res, validation, i) ==
  IF i > Len(validation) THEN None
  ELSE IF validation[i] = "exit_code_equals_0"
          /\ res.exit_code # <<0>> /\ res.exit_code # <<>>
    THEN "Validation failed: exit code"
  ELSE IF validation[i] = "no_syntax_errors" /\ has_error_marker(res.error)
    THEN "Validation failed: syntax errors detected"
  ELSE validate_step_result_none_passes(res, validation, i + 1)

\* _validate_step_result: the message of the ValueError it raises, or None.
RECURSIVE validate_step_result(_, _, _)
validate_step_result(res, validation, i) ==
  IF i > Len(validation) THEN None
  ELSE IF validation[i] = "exit_code_equals_0" /\ res.exit_code # <<0>>
    THEN "Validation failed: exit code"
  ELSE IF validation[i] = "no_syntax_errors" /\ has_error_marker(res.error)
    THEN "Validation failed: syntax errors detected"
  ELSE validate_step_result(res, validation, i + 1)

\* Bug: a tool name the dispatch does not know is an error.
dispatch_unknown_tool_fails(step, env) ==
  CASE step.tool = "Bash" -> execute_bash_step(step, env)
    [] step.tool = "Read" -> execute_read_step(step, env)
    [] step.tool = "Grep" -> execute_grep_step(step, env)
    [] step.tool = "Glob" -> execute_glob_step(step, env)
    [] step.tool = "Edit" -> execute_edit_step(step, env)
    [] step.tool = "Write" -> execute_write_step(step, env)
    [] OTHER -> ExecutionResult("failed", "exception text", <<>>)

\* _execute_step, lines 237-254: routing by tool name.
dispatch(step, env) ==
  CASE step.tool = "Bash" -> execute_bash_step(step, env)
    [] step.tool = "Read" -> execute_read_step(step, env)
    [] step.tool = "Grep" -> execute_grep_step(step, env)
    [] step.tool = "Glob" -> execute_glob_step(step, env)
    [] step.tool = "Edit" -> execute_edit_step(step, env)
    [] step.tool = "Write" -> execute_write_step(step, env)
    [] OTHER -> ExecutionResult("success", None, <<>>)

\* Bug: what a handler raises is not caught.
execute_step_uncaught(step, env) ==
  LET r == dispatch(step, env)
      v == validate_step_result(r, step.validation, 1)
  IN  IF r.status = "raised" THEN r
      ELSE IF step.has_validation /\ v # None
        THEN ExecutionResult("failed", v, <<>>)
      ELSE r

\* Bug: a step whose rules all pass is a success, whatever dispatch reported.
execute_step_rules_decide(step, env) ==
  LET r == dispatch(step, env)
      v == validate_step_result(r, step.validation, 1)
  IN  IF r.status = "raised" THEN ExecutionResult("failed", r.error, <<>>)
      ELSE IF step.has_validation /\ v # None
        THEN ExecutionResult("failed", v, <<>>)
      ELSE IF step.has_validation
        THEN ExecutionResult("success", None, r.exit_code)
      ELSE r

\* _execute_step: dispatch, then the rules when the step has the key; whatever
\* is raised on the way becomes a failed result carrying only the message.
execute_step(step, env) ==
  LET r == dispatch(step, env)
      v == validate_step_result(r, step.validation, 1)
  IN  IF r.status = "raised" THEN ExecutionResult("failed", r.error, <<>>)
      ELSE IF step.has_validation /\ v # None
        THEN ExecutionResult("failed", v, <<>>)
      ELSE r

\* _handle_failure_actions: the exception it raises, or None.
handle_failure_actions(actions) ==
  IF actions = "ill_typed" THEN <<"TypeError", "failure action", None>> ELSE NoException

\* ------------------------------------------------------------ the engine
\* What an observer of one execute() call has seen: dispatched counts the
\* _execute_step calls, escalations the _handle_failure_actions calls, runs the
\* _execute_steps calls made for the current phase; base_completed and
\* base_failed are the lengths of the two lists when the current phase (or
\* flat list) began; exhausted counts the phases whose last attempt failed;
\* work sums max_attempts * len(steps) over the phases read; succeeded counts
\* the phases the retry loop left by `break`, passed_over the phases whose
\* retry loop had no iteration; step_failures counts the runs of
\* _execute_steps that ended in the RuntimeError of a failed step.
NoTrace ==
  [dispatched |-> 0, escalations |-> 0, runs |-> 0, base_completed |-> 0,
   base_failed |-> 0, exhausted |-> 0, work |-> 0, succeeded |-> 0,
   passed_over |-> 0, step_failures |-> 0, product |-> 0]

\* An engine that has run before holds the WorkflowState of that run: here a
\* flat one-step workflow that completed.
PreviousState ==
  [workflow_name |-> "previous", status |-> "completed", start_time |-> "set",
   end_time |-> "set", current_phase |-> None,
   steps_completed |-> <<"A">>, steps_failed |-> <<>>]

\* No method is called on its own; main() has not exited.
NoCall == [method |-> None]
NoProcess == [exit_code |-> None, stderr |-> None]

\* Everything but the engine's own field, before execute() is called.
InitCall ==
  /\ pc = "idle"
  /\ workflow_name = None
  /\ params = {}
  /\ document = NoDocument
  /\ workflow = NoDocument
  /\ phase_idx = 0
  /\ phase = NoPhase
  /\ attempt = 0
  /\ steps = <<>>
  /\ step_idx = 0
  /\ caller = None
  /\ result = NoResult
  /\ exc = NoException
  /\ trace = NoTrace
  /\ process = NoProcess

\* __init__: self.state = None
Init ==
  /\ heap = <<>>
  /\ self_state = 0
  /\ InitCall
  /\ call = NoCall

\* An engine on which execute() is called again.
InitReused ==
  /\ heap = <<PreviousState>>
  /\ self_state = 1
  /\ InitCall
  /\ call = NoCall

state == heap[self_state]

\* self.state.<field> = value
assign(field, value) == heap' = [heap EXCEPT ![self_state][field] = value]

\* step.get('action', ...): every step of StepKinds has the key.
step_name(step) == step.action

\* Where an exception raised inside _execute_steps lands: the except of the
\* retry loop when a phase called it, else the except of execute().
handler == IF caller = "phases" THEN "phase_except" ELSE "except"

\* Bug: a load that fails leaves a failed WorkflowState of the new workflow.
Execute_load_failure_recorded ==
  /\ pc = "idle"
  /\ \E d \in {NoDocument} \cup {x \in Documents : WellFormedDocument(x)},
        given \in SUBSET ParamNames :
       /\ document' = d
       /\ params' = given
       /\ workflow_name' = "wf"
       /\ IF load_workflow(d) # NoException
            THEN /\ exc' = load_workflow(d)
                 /\ pc' = "raised"
                 /\ heap' = Append(heap, [WorkflowState("wf") EXCEPT
                                            !.status = "failed"])
                 /\ self_state' = Len(heap) + 1
                 /\ UNCHANGED workflow
            ELSE /\ workflow' = d
                 /\ pc' = "loaded"
                 /\ UNCHANGED <<exc, heap, self_state>>
  /\ UNCHANGED <<phase_idx, phase, attempt, steps, step_idx,
                 caller, result, trace>>

  /\ UNCHANGED outside
\* execute() lines 117-121: bind the arguments and load the document.
Execute_load ==
  /\ pc = "idle"
  /\ \E d \in {NoDocument} \cup {x \in Documents : WellFormedDocument(x)},
        given \in SUBSET ParamNames :
       /\ document' = d
       /\ params' = given
       /\ workflow_name' = "wf"
       /\ IF load_workflow(d) # NoException
            THEN /\ exc' = load_workflow(d)
                 /\ pc' = "raised"
                 /\ UNCHANGED workflow
            ELSE /\ workflow' = d
                 /\ pc' = "loaded"
                 /\ UNCHANGED exc
  /\ UNCHANGED <<heap, self_state, phase_idx, phase, attempt, steps, step_idx,
                 caller, result, trace>>

  /\ UNCHANGED outside
\* Bug: an engine that already holds a WorkflowState resets it in place.
Execute_new_state_in_place ==
  /\ pc = "loaded"
  /\ IF self_state = 0
       THEN /\ heap' = Append(heap, WorkflowState(workflow_name))
            /\ self_state' = Len(heap) + 1
       ELSE /\ heap' = [heap EXCEPT ![self_state] = WorkflowState(workflow_name)]
            /\ UNCHANGED self_state
  /\ pc' = "constructed"
  /\ UNCHANGED <<workflow_name, params, document, workflow, phase_idx, phase,
                 attempt, steps, step_idx, caller, result, exc, trace>>

  /\ UNCHANGED outside
\* line 122: self.state = WorkflowState(workflow_name=workflow_name)
Execute_new_state ==
  /\ pc = "loaded"
  /\ heap' = Append(heap, WorkflowState(workflow_name))
  /\ self_state' = Len(heap) + 1
  /\ pc' = "constructed"
  /\ UNCHANGED <<workflow_name, params, document, workflow, phase_idx, phase,
                 attempt, steps, step_idx, caller, result, exc, trace>>

  /\ UNCHANGED outside
\* lines 123-124: status = RUNNING, start_time = time.time()
Execute_start ==
  /\ pc = "constructed"
  /\ heap' = [heap EXCEPT ![self_state].status = "running",
                          ![self_state].start_time = "set"]
  /\ pc' = "try"
  /\ UNCHANGED <<self_state, workflow_name, params, document, workflow,
                 phase_idx, phase, attempt, steps, step_idx, caller, result,
                 exc, trace>>

  /\ UNCHANGED outside
\* line 134: self._validate_inputs(workflow.get('inputs', {}), params)
Execute_validate_inputs ==
  /\ pc = "try"
  /\ IF validate_inputs(workflow.required, params) # NoException
       THEN /\ exc' = validate_inputs(workflow.required, params)
            /\ pc' = "except"
       ELSE /\ pc' = "branch"
            /\ UNCHANGED exc
  /\ UNCHANGED <<heap, self_state, workflow_name, params, document, workflow,
                 phase_idx, phase, attempt, steps, step_idx, caller, result,
                 trace>>

  /\ UNCHANGED outside
\* Bug: a flat step list is run under the retry loop, with two attempts.
Execute_branch_flat_retried ==
  /\ pc = "branch"
  /\ IF "phases" \in workflow.keys
       THEN /\ pc' = "phases"
            /\ phase_idx' = 0
            /\ UNCHANGED <<steps, step_idx, caller, exc, trace, phase, attempt>>
       ELSE IF "steps" \in workflow.keys
         THEN /\ \E list \in StepLists :
                   /\ 2 * Len(list) <= MaxWork
                   /\ steps' = list
                   /\ phase' = [NoPhase EXCEPT !.max_attempts = 2, !.steps = list]
                   /\ trace' = [trace EXCEPT !.work = 2 * Len(list), !.runs = 1]
            /\ step_idx' = 1
            /\ attempt' = 1
            /\ caller' = "phases"
            /\ pc' = "steps"
            /\ UNCHANGED <<phase_idx, exc>>
       ELSE /\ exc' = <<"ValueError", "Workflow must have either 'phases' or 'steps'", None>>
            /\ pc' = "except"
            /\ UNCHANGED <<phase_idx, steps, step_idx, caller, trace, phase, attempt>>
  /\ UNCHANGED <<heap, self_state, workflow_name, params, document, workflow,
                 result>>
  /\ UNCHANGED outside

\* lines 137-142: phases, else steps, else ValueError.
Execute_branch ==
  /\ pc = "branch"
  /\ IF "phases" \in workflow.keys
       THEN /\ pc' = "phases"
            /\ phase_idx' = 0
            /\ UNCHANGED <<steps, step_idx, caller, exc, trace>>
       ELSE IF "steps" \in workflow.keys
         THEN /\ \E list \in StepLists :
                   /\ Len(list) <= MaxWork
                   /\ steps' = list
                   /\ trace' = [trace EXCEPT !.work = Len(list), !.runs = 1]
            /\ step_idx' = 1
            /\ caller' = "execute"
            /\ pc' = "steps"
            /\ UNCHANGED <<phase_idx, exc>>
       ELSE /\ exc' = <<"ValueError", "Workflow must have either 'phases' or 'steps'", None>>
            /\ pc' = "except"
            /\ UNCHANGED <<phase_idx, steps, step_idx, caller, trace>>
  /\ UNCHANGED <<heap, self_state, workflow_name, params, document, workflow,
                 phase, attempt, result>>

  /\ UNCHANGED outside
\* Bug: a phase whose retry loop has no iteration fails the workflow.
ExecutePhases_next_no_attempt_fails ==
  /\ pc = "phases"
  /\ phase_idx < MaxPhases
  /\ \E p \in Phases(phase_idx + 1) :
       /\ trace.work + Work(p) <= MaxWork
       /\ p.max_attempts < 1 => p.steps \in UnreadSteps
       /\ phase' = p
       /\ phase_idx' = phase_idx + 1
       /\ assign("current_phase", p.name)
       /\ steps' = p.steps
       /\ caller' = "phases"
       /\ trace' = [trace EXCEPT !.work = @ + Work(p),
                                 !.product = @ + p.max_attempts * Len(p.steps),
                                 !.runs = IF p.max_attempts >= 1 THEN 1 ELSE 0,
                                 !.passed_over =
                                   IF p.max_attempts >= 1 THEN @ ELSE @ + 1,
                                 !.base_completed = Len(state.steps_completed),
                                 !.base_failed = Len(state.steps_failed)]
       /\ IF p.max_attempts >= 1
            THEN /\ attempt' = 1
                 /\ step_idx' = 1
                 /\ pc' = "steps"
                 /\ UNCHANGED exc
            ELSE /\ pc' = "except"
                 /\ exc' = <<"RuntimeError", "Step failed", None>>
                 /\ UNCHANGED <<attempt, step_idx>>
  /\ UNCHANGED <<self_state, workflow_name, params, document, workflow, result>>

  /\ UNCHANGED outside
\* _execute_phases lines 179-192: the loop takes the next phase and enters the
\* retry loop; range(1, max_attempts + 1) is empty when max_attempts < 1.
ExecutePhases_next ==
  /\ pc = "phases"
  /\ phase_idx < MaxPhases
  /\ \E p \in Phases(phase_idx + 1) :
       /\ trace.work + Work(p) <= MaxWork
       /\ p.max_attempts < 1 => p.steps \in UnreadSteps
       /\ phase' = p
       /\ phase_idx' = phase_idx + 1
       /\ assign("current_phase", p.name)
       /\ steps' = p.steps
       /\ caller' = "phases"
       /\ trace' = [trace EXCEPT !.work = @ + Work(p),
                                 !.product = @ + p.max_attempts * Len(p.steps),
                                 !.runs = IF p.max_attempts >= 1 THEN 1 ELSE 0,
                                 !.passed_over =
                                   IF p.max_attempts >= 1 THEN @ ELSE @ + 1,
                                 !.base_completed = Len(state.steps_completed),
                                 !.base_failed = Len(state.steps_failed)]
       /\ IF p.max_attempts >= 1
            THEN /\ attempt' = 1
                 /\ step_idx' = 1
                 /\ pc' = "steps"
            ELSE /\ pc' = "phases"
                 /\ UNCHANGED <<attempt, step_idx>>
  /\ UNCHANGED <<self_state, workflow_name, params, document, workflow, result,
                 exc>>

  /\ UNCHANGED outside
\* _execute_phases: the list has no further phase, the method returns and
\* its frame (phase, attempt) is gone.
ExecutePhases_return ==
  /\ pc = "phases"
  /\ pc' = "criteria"
  /\ phase' = NoPhase
  /\ attempt' = 0
  /\ UNCHANGED <<heap, self_state, workflow_name, params, document, workflow,
                 phase_idx, steps, step_idx, caller, result, exc, trace>>

  /\ UNCHANGED outside
\* _execute_steps: the for loop is exhausted, the method returns (its frame
\* is gone): to the `break` of the retry loop, or to execute().
ExecuteSteps_return ==
  /\ pc = "steps"
  /\ step_idx > Len(steps)
  /\ pc' = IF caller = "phases" THEN "phases" ELSE "criteria"
  /\ steps' = <<>>
  /\ step_idx' = 0
  /\ caller' = None
  /\ trace' = [trace EXCEPT !.succeeded = IF caller = "phases" THEN @ + 1 ELSE @]
  /\ UNCHANGED <<heap, self_state, workflow_name, params, document, workflow,
                 phase_idx, phase, attempt, result, exc>>

  /\ UNCHANGED outside
\* Bug: a skipped step is recorded as completed.
ExecuteSteps_skip_recorded ==
  /\ pc = "steps"
  /\ step_idx <= Len(steps)
  /\ steps[step_idx].condition # "absent"
  /\ evaluate_condition(steps[step_idx].condition) = "False"
  /\ step_idx' = step_idx + 1
  /\ heap' = [heap EXCEPT ![self_state].steps_completed =
                            Append(@, steps[step_idx].action)]
  /\ UNCHANGED <<pc, self_state, workflow_name, params, document, workflow,
                 phase_idx, phase, attempt, steps, caller, result, exc, trace>>

  /\ UNCHANGED outside
\* lines 211-215: the condition is there and is not met: continue.
ExecuteSteps_skip ==
  /\ pc = "steps"
  /\ step_idx <= Len(steps)
  /\ steps[step_idx].condition # "absent"
  /\ evaluate_condition(steps[step_idx].condition) = "False"
  /\ step_idx' = step_idx + 1
  /\ UNCHANGED <<pc, heap, self_state, workflow_name, params, document,
                 workflow, phase_idx, phase, attempt, steps, caller, result,
                 exc, trace>>

  /\ UNCHANGED outside
\* line 212: _evaluate_condition itself raises.
ExecuteSteps_condition_raises ==
  /\ pc = "steps"
  /\ step_idx <= Len(steps)
  /\ steps[step_idx].condition # "absent"
  /\ evaluate_condition(steps[step_idx].condition) = "TypeError"
  /\ exc' = <<"TypeError", "condition", step_name(steps[step_idx])>>
  /\ pc' = handler
  /\ UNCHANGED <<heap, self_state, workflow_name, params, document, workflow,
                 phase_idx, phase, attempt, steps, step_idx, caller, result,
                 trace>>

  /\ UNCHANGED outside
\* Bug: a failed step is recorded but the loop goes on to the next step.
ExecuteSteps_step_no_raise ==
  /\ pc = "steps"
  /\ step_idx <= Len(steps)
  /\ \/ steps[step_idx].condition = "absent"
     \/ evaluate_condition(steps[step_idx].condition) = "True"
  /\ \E env \in Outcomes(steps[step_idx]) :
       LET r == execute_step(steps[step_idx], env) IN
       /\ result' = r
       /\ trace' = [trace EXCEPT !.dispatched = @ + 1]
       /\ IF r.status = "success"
            THEN heap' = [heap EXCEPT ![self_state].steps_completed =
                                       Append(@, steps[step_idx].action)]
            ELSE heap' = [heap EXCEPT ![self_state].steps_failed =
                                       Append(@, steps[step_idx].action)]
       /\ step_idx' = step_idx + 1
  /\ UNCHANGED <<pc, exc, self_state, workflow_name, params, document,
                 workflow, phase_idx, phase, attempt, steps, caller>>

  /\ UNCHANGED outside
\* Bug: a failed step raises without being appended to steps_failed.
ExecuteSteps_step_failure_unrecorded ==
  /\ pc = "steps"
  /\ step_idx <= Len(steps)
  /\ \/ steps[step_idx].condition = "absent"
     \/ evaluate_condition(steps[step_idx].condition) = "True"
  /\ \E env \in Outcomes(steps[step_idx]) :
       LET r == execute_step(steps[step_idx], env) IN
       /\ result' = r
       /\ trace' = [trace EXCEPT !.dispatched = @ + 1]
       /\ IF r.status = "success"
            THEN /\ assign("steps_completed",
                           Append(state.steps_completed, step_name(steps[step_idx])))
                 /\ step_idx' = step_idx + 1
                 /\ UNCHANGED <<pc, exc>>
            ELSE /\ UNCHANGED heap
                 /\ exc' = <<"RuntimeError", "Step failed", step_name(steps[step_idx])>>
                 /\ pc' = handler
                 /\ UNCHANGED step_idx
  /\ UNCHANGED <<self_state, workflow_name, params, document, workflow,
                 phase_idx, phase, attempt, steps, caller>>

  /\ UNCHANGED outside
\* lines 218-224: run the step and record it.
ExecuteSteps_step ==
  /\ pc = "steps"
  /\ step_idx <= Len(steps)
  /\ \/ steps[step_idx].condition = "absent"
     \/ evaluate_condition(steps[step_idx].condition) = "True"
  /\ \E env \in Outcomes(steps[step_idx]) :
       LET r == execute_step(steps[step_idx], env) IN
       /\ result' = r
       /\ trace' = [trace EXCEPT !.dispatched = @ + 1]
       /\ IF r.status = "success"
            THEN /\ assign("steps_completed",
                           Append(state.steps_completed, step_name(steps[step_idx])))
                 /\ step_idx' = step_idx + 1
                 /\ UNCHANGED <<pc, exc>>
            ELSE /\ assign("steps_failed",
                           Append(state.steps_failed, step_name(steps[step_idx])))
                 /\ exc' = <<"RuntimeError", "Step failed", step_name(steps[step_idx])>>
                 /\ pc' = handler
                 /\ UNCHANGED step_idx
  /\ UNCHANGED <<self_state, workflow_name, params, document, workflow,
                 phase_idx, phase, attempt, steps, caller>>

  /\ UNCHANGED outside
\* 1 when the exception in flight is the RuntimeError of a failed step.
step_failed == IF exc[1] = "RuntimeError" THEN 1 ELSE 0

\* Bug: a phase whose attempts all failed is left behind and the loop goes on
\* to the next phase.
ExecutePhases_except_next_phase ==
  /\ pc = "phase_except"
  /\ IF attempt = phase.max_attempts
       THEN /\ trace' = [trace EXCEPT !.exhausted = @ + 1,
                                      !.step_failures = @ + step_failed]
            /\ exc' = NoException
            /\ pc' = "phases"
            /\ UNCHANGED <<attempt, step_idx, phase>>
       ELSE /\ attempt' = attempt + 1
            /\ step_idx' = 1
            /\ trace' = [trace EXCEPT !.runs = @ + 1,
                                      !.step_failures = @ + step_failed]
            /\ exc' = NoException
            /\ pc' = "steps"
            /\ UNCHANGED phase
  /\ UNCHANGED <<heap, self_state, workflow_name, params, document, workflow,
                 phase_idx, steps, caller, result>>
  /\ UNCHANGED outside

\* Bug: the retry resumes at the step that failed instead of the first step.
ExecutePhases_except_resume ==
  /\ pc = "phase_except"
  /\ IF attempt = phase.max_attempts
       THEN /\ \E actions \in FailureActions :
                 /\ phase' = [phase EXCEPT !.failure_actions = actions]
                 /\ IF actions # "absent"
                      THEN /\ trace' = [trace EXCEPT !.escalations = @ + 1,
                                                     !.exhausted = @ + 1,
                                                     !.step_failures = @ + step_failed]
                           /\ exc' = IF handle_failure_actions(actions) # NoException
                                       THEN handle_failure_actions(actions)
                                       ELSE exc
                      ELSE /\ trace' = [trace EXCEPT !.exhausted = @ + 1,
                                                     !.step_failures = @ + step_failed]
                           /\ UNCHANGED exc
            /\ pc' = "except"
            /\ UNCHANGED <<attempt, step_idx>>
       ELSE /\ attempt' = attempt + 1
            /\ trace' = [trace EXCEPT !.runs = @ + 1,
                                      !.step_failures = @ + step_failed]
            /\ exc' = NoException
            /\ pc' = "steps"
            /\ UNCHANGED <<phase, step_idx>>
  /\ UNCHANGED <<heap, self_state, workflow_name, params, document, workflow,
                 phase_idx, steps, caller, result>>

  /\ UNCHANGED outside
\* Bug: the failure actions run after every failed attempt, not only the last.
ExecutePhases_except_escalate_always ==
  /\ pc = "phase_except"
  /\ \E actions \in FailureActions :
       /\ phase' = [phase EXCEPT !.failure_actions = actions]
       /\ IF attempt = phase.max_attempts
            THEN /\ trace' = [trace EXCEPT
                                !.escalations = IF actions # "absent" THEN @ + 1 ELSE @,
                                !.exhausted = @ + 1,
                                !.step_failures = @ + step_failed]
                 /\ exc' = IF actions # "absent"
                                /\ handle_failure_actions(actions) # NoException
                             THEN handle_failure_actions(actions)
                             ELSE exc
                 /\ pc' = "except"
                 /\ UNCHANGED <<attempt, step_idx>>
            ELSE /\ trace' = [trace EXCEPT
                                !.escalations = IF actions # "absent" THEN @ + 1 ELSE @,
                                !.runs = @ + 1,
                                !.step_failures = @ + step_failed]
                 /\ attempt' = attempt + 1
                 /\ step_idx' = 1
                 /\ exc' = NoException
                 /\ pc' = "steps"
  /\ UNCHANGED <<heap, self_state, workflow_name, params, document, workflow,
                 phase_idx, steps, caller, result>>

  /\ UNCHANGED outside
\* Bug: the retry loop makes one attempt more than max_attempts.
ExecutePhases_except_one_more ==
  /\ pc = "phase_except"
  /\ IF attempt = phase.max_attempts + 1
       THEN /\ \E actions \in FailureActions :
                 /\ phase' = [phase EXCEPT !.failure_actions = actions]
                 /\ IF actions # "absent"
                      THEN /\ trace' = [trace EXCEPT !.escalations = @ + 1,
                                                     !.exhausted = @ + 1,
                                                     !.step_failures = @ + step_failed]
                           /\ exc' = IF handle_failure_actions(actions) # NoException
                                       THEN handle_failure_actions(actions)
                                       ELSE exc
                      ELSE /\ trace' = [trace EXCEPT !.exhausted = @ + 1,
                                                     !.step_failures = @ + step_failed]
                           /\ UNCHANGED exc
            /\ pc' = "except"
            /\ UNCHANGED <<attempt, step_idx>>
       ELSE /\ attempt' = attempt + 1
            /\ step_idx' = 1
            /\ trace' = [trace EXCEPT !.runs = @ + 1,
                                      !.step_failures = @ + step_failed]
            /\ exc' = NoException
            /\ pc' = "steps"
            /\ UNCHANGED phase
  /\ UNCHANGED <<heap, self_state, workflow_name, params, document, workflow,
                 phase_idx, steps, caller, result>>

  /\ UNCHANGED outside
\* Bug: a retry drops what the failed attempt recorded.
ExecutePhases_except_rollback ==
  /\ pc = "phase_except"
  /\ IF attempt = phase.max_attempts
       THEN /\ \E actions \in FailureActions :
                 /\ phase' = [phase EXCEPT !.failure_actions = actions]
                 /\ IF actions # "absent"
                      THEN /\ trace' = [trace EXCEPT !.escalations = @ + 1,
                                                     !.exhausted = @ + 1,
                                                     !.step_failures = @ + step_failed]
                           /\ exc' = IF handle_failure_actions(actions) # NoException
                                       THEN handle_failure_actions(actions)
                                       ELSE exc
                      ELSE /\ trace' = [trace EXCEPT !.exhausted = @ + 1,
                                                     !.step_failures = @ + step_failed]
                           /\ UNCHANGED exc
            /\ pc' = "except"
            /\ UNCHANGED <<attempt, step_idx, heap>>
       ELSE /\ attempt' = attempt + 1
            /\ step_idx' = 1
            /\ trace' = [trace EXCEPT !.runs = @ + 1,
                                      !.step_failures = @ + step_failed]
            /\ exc' = NoException
            /\ pc' = "steps"
            /\ heap' = [heap EXCEPT
                 ![self_state].steps_completed =
                   SubSeq(@, 1, trace.base_completed),
                 ![self_state].steps_failed = SubSeq(@, 1, trace.base_failed)]
            /\ UNCHANGED phase
  /\ UNCHANGED <<self_state, workflow_name, params, document, workflow,
                 phase_idx, steps, caller, result>>

  /\ UNCHANGED outside
\* _execute_phases lines 196-203: an attempt raised.
ExecutePhases_except ==
  /\ pc = "phase_except"
  /\ IF attempt = phase.max_attempts
       THEN /\ \E actions \in FailureActions :
                 /\ phase' = [phase EXCEPT !.failure_actions = actions]
                 /\ IF actions # "absent"
                      THEN /\ trace' = [trace EXCEPT !.escalations = @ + 1,
                                                     !.exhausted = @ + 1,
                                                     !.step_failures = @ + step_failed]
                           /\ exc' = IF handle_failure_actions(actions) # NoException
                                       THEN handle_failure_actions(actions)
                                       ELSE exc
                      ELSE /\ trace' = [trace EXCEPT !.exhausted = @ + 1,
                                                     !.step_failures = @ + step_failed]
                           /\ UNCHANGED exc
            /\ pc' = "except"
            /\ UNCHANGED <<attempt, step_idx>>
       ELSE /\ attempt' = attempt + 1
            /\ step_idx' = 1
            /\ trace' = [trace EXCEPT !.runs = @ + 1,
                                      !.step_failures = @ + step_failed]
            /\ exc' = NoException
            /\ pc' = "steps"
            /\ UNCHANGED phase
  /\ UNCHANGED <<heap, self_state, workflow_name, params, document, workflow,
                 phase_idx, steps, caller, result>>

  /\ UNCHANGED outside
\* Bug: an all_of block is enforced, and its criteria are not met.
check_success_criteria_enforced(criteria) ==
  IF criteria = "all_of" THEN <<"ValueError", "criteria not met", None>>
  ELSE NoException

\* _check_success_criteria: the exception it raises, or None.  It walks the
\* all_of entries and only prints them.
check_success_criteria(criteria) == NoException

\* execute() lines 144-158: criteria, then COMPLETED and the end time.
Execute_complete ==
  /\ pc = "criteria"
  /\ \E c \in SuccessCriteria :
       /\ workflow' = [workflow EXCEPT !.success_criteria = c]
       /\ IF c # "absent" /\ check_success_criteria(c) # NoException
            THEN /\ exc' = check_success_criteria(c)
                 /\ pc' = "except"
                 /\ UNCHANGED heap
            ELSE /\ heap' = [heap EXCEPT ![self_state].status = "completed",
                                         ![self_state].end_time = "set"]
                 /\ pc' = "returned"
                 /\ UNCHANGED exc
  /\ UNCHANGED <<self_state, workflow_name, params, document, phase_idx, phase,
                 attempt, steps, step_idx, caller, result, trace>>

  /\ UNCHANGED outside
\* Bug: only a failed step marks the run failed; other errors pass through.
Execute_except_step_only ==
  /\ pc = "except"
  /\ IF exc[1] = "RuntimeError"
       THEN heap' = [heap EXCEPT ![self_state].status = "failed",
                                 ![self_state].end_time = "set"]
       ELSE UNCHANGED heap
  /\ pc' = "raised"
  /\ trace' = [trace EXCEPT !.step_failures =
                              IF caller = "execute" THEN @ + step_failed ELSE @]
  /\ UNCHANGED <<self_state, workflow_name, params, document, workflow,
                 phase_idx, phase, attempt, steps, step_idx, caller, result,
                 exc>>

  /\ UNCHANGED outside
\* execute() lines 160-167: FAILED, the end time, re-raise.
Execute_except ==
  /\ pc = "except"
  /\ heap' = [heap EXCEPT ![self_state].status = "failed",
                          ![self_state].end_time = "set"]
  /\ pc' = "raised"
  /\ trace' = [trace EXCEPT !.step_failures =
                              IF caller = "execute" THEN @ + step_failed ELSE @]
  /\ UNCHANGED <<self_state, workflow_name, params, document, workflow,
                 phase_idx, phase, attempt, steps, step_idx, caller, result,
                 exc>>

  /\ UNCHANGED outside
Next ==
  \/ Execute_load
  \/ Execute_new_state
  \/ Execute_start
  \/ Execute_validate_inputs
  \/ Execute_branch
  \/ ExecutePhases_next
  \/ ExecutePhases_return
  \/ ExecuteSteps_return
  \/ ExecuteSteps_skip
  \/ ExecuteSteps_condition_raises
  \/ ExecuteSteps_step
  \/ ExecutePhases_except
  \/ Execute_complete
  \/ Execute_except

Spec == Init /\ [][Next]_vars

SpecReused == InitReused /\ [][Next]_vars

\* execute() is one sequential call: while it has a next statement it goes on
\* to it, every handler invocation being taken to return.
SpecFair == Init /\ [][Next]_vars /\ WF_vars(Next)

\* ------------------------------------------------------------------ main()
\* What main() leaves alone once it has called execute().
execution == <<heap, self_state, workflow_name, params, document, workflow,
               phase_idx, phase, attempt, steps, step_idx, caller, result,
               exc, trace, call>>

\* lines 481-488: the command line does not parse (argparse exits with 2), or
\* a --param has no '=' (the unpacking raises outside the try: traceback, 1).
Main_usage_error ==
  /\ pc = "idle"
  /\ \E code \in {1, 2} :
       process' = [exit_code |-> code,
                   stderr |-> IF code = 2 THEN "usage" ELSE "traceback"]
  /\ pc' = "exited"
  /\ UNCHANGED execution

\* Bug: the exit code is 0 whether execute() returned or raised.
Main_exit_always_zero ==
  /\ pc \in {"returned", "raised"}
  /\ process' = [exit_code |-> 0,
                 stderr |-> IF pc = "raised" THEN exc[2] ELSE None]
  /\ pc' = "exited"
  /\ UNCHANGED execution

\* lines 493-504: execute() returned: report on stdout, exit(0); it raised:
\* the message on stderr, exit(1).
Main_exit ==
  /\ pc \in {"returned", "raised"}
  /\ process' = IF pc = "returned" THEN [exit_code |-> 0, stderr |-> None]
                ELSE [exit_code |-> 1, stderr |-> exc[2]]
  /\ pc' = "exited"
  /\ UNCHANGED execution

NextMain ==
  \/ Next
  \/ Main_usage_error
  \/ Main_exit

\* main() builds its own engine: Init.
SpecMain == Init /\ [][NextMain]_vars

\* ---------------------------------------------- methods called on their own
\* _substitute_params(text, params), then again on what it returned.
InitSubstitute ==
  /\ heap = <<>>
  /\ self_state = 0
  /\ InitCall
  /\ \E text \in Texts(MaxText), p \in Mappings :
       call = [method |-> "_substitute_params", text |-> text, params |-> p,
               returned |-> <<>>]

Substitute_call ==
  /\ call.method = "_substitute_params"
  /\ Len(call.returned) < MaxPasses
  /\ LET text == IF call.returned = <<>> THEN call.text
                 ELSE call.returned[Len(call.returned)]
     IN  call' = [call EXCEPT !.returned =
                                Append(@, substitute_params(text, call.params))]
  /\ UNCHANGED engine

NextSubstitute == Substitute_call

SpecSubstitute == InitSubstitute /\ [][NextSubstitute]_vars

\* _execute_step(step, params) on one step; dispatched is what the handler
\* handed back inside it (status "raised" when it raised instead).
InitStep ==
  /\ heap = <<>>
  /\ self_state = 0
  /\ InitCall
  /\ \E step \in AllSteps :
       call = [method |-> "_execute_step", step |-> step, env |-> None,
               dispatched |-> <<>>, returned |-> <<>>]

ExecuteStep_call ==
  /\ call.method = "_execute_step"
  /\ call.returned = <<>>
  /\ \E env \in HandlerOutcomes(call.step) :
       call' = [call EXCEPT !.env = env,
                            !.dispatched = <<dispatch(call.step, env)>>,
                            !.returned = <<execute_step(call.step, env)>>]
  /\ UNCHANGED engine

NextStep == ExecuteStep_call

SpecStep == InitStep /\ [][NextStep]_vars

TypeOK ==
  /\ pc \in {"idle", "loaded", "constructed", "try", "branch", "phases", "steps",
             "phase_except", "criteria", "except", "returned", "raised", "exited"}
  /\ self_state \in 0..Len(heap)
  /\ \A i \in 1..Len(heap) : heap[i].status \in WorkflowStatus

\* ------------------------------------------------------------ properties
Terminal == pc \in {"returned", "raised"}

\* The entries a list gained since the current phase (or flat list) began.
Since(seq, base) == SubSeq(seq, base + 1, Len(seq))
completed_here == Since(state.steps_completed, trace.base_completed)
failed_here == Since(state.steps_failed, trace.base_failed)

Range(seq) == {seq[i] : i \in 1..Len(seq)}

\* The statuses a WorkflowState may move between.
Forward ==
  {<<"not_started", "running">>, <<"running", "completed">>, <<"running", "failed">>}

\* C1: the status of any one WorkflowState object only moves forward along
\* not_started -> running -> {completed | failed}: a state that is completed
\* or failed never changes again, every object starts not_started, and
\* partial is never assigned.
C1_StatusOnlyMovesForward ==
  [][/\ \A i \in 1..Len(heap) :
          \/ heap'[i].status = heap[i].status
          \/ <<heap[i].status, heap'[i].status>> \in Forward
     /\ \A i \in (Len(heap) + 1)..Len(heap') : heap'[i].status = "not_started"
     /\ Len(heap') >= Len(heap)]_vars

\* C1 witness: a second execute() on the same engine ran to the end while the
\* first run's WorkflowState is still completed.
C1_Witness ==
  /\ Len(heap) = 2
  /\ heap[1].status = "completed"
  /\ heap[2].status = "failed"
  /\ pc = "raised"

\* C2: once execute() has returned or raised, no WorkflowState is running:
\* the call's state is completed when it returned and failed when it raised
\* (whatever failed: input check, step, validation rule, condition, the
\* phases/steps test or a failure action), with end_time set.  A call whose
\* load failed created no state.
C2_NeverLeftRunning ==
  Terminal =>
    /\ \A i \in 1..Len(heap) :
         heap[i].status \in {"completed", "failed"} /\ heap[i].end_time = "set"
    /\ workflow # NoDocument =>
         /\ self_state = Len(heap) /\ self_state > 0
         /\ state.workflow_name = workflow_name
         /\ pc = "returned" => state.status = "completed" /\ exc = NoException
         /\ pc = "raised" => state.status = "failed" /\ exc # NoException

\* C2 witness: a failure action raised after the last attempt of a phase, and
\* the run is recorded failed.
C2_Witness ==
  /\ pc = "raised"
  /\ exc = <<"TypeError", "failure action", None>>
  /\ state.status = "failed"
  /\ state.end_time = "set"

\* A step that is dispatched when the loop reaches it.
is_run(step) ==
  step.condition = "absent" \/ evaluate_condition(step.condition) = "True"

\* A step that is skipped when the loop reaches it.
is_skipped(step) ==
  step.condition # "absent" /\ evaluate_condition(step.condition) = "False"

\* The names one complete run of a step list records, in order.
RECURSIVE full_run(_)
full_run(list) ==
  IF list = <<>> THEN <<>>
  ELSE (IF is_run(Head(list)) THEN <<step_name(Head(list))>> ELSE <<>>)
         \o full_run(Tail(list))

Index(seq, x) == CHOOSE i \in 1..Len(seq) : seq[i] = x

\* completed is what Len(failed) runs of `run` that each stopped at the step
\* named next in `failed`, followed by one complete run, append: every run
\* starts at the first step.
RECURSIVE restarts_from_first(_, _, _)
restarts_from_first(completed, failed, run) ==
  IF failed = <<>> THEN completed = run
  ELSE /\ Head(failed) \in Range(run)
       /\ LET j == Index(run, Head(failed)) IN
            /\ Len(completed) >= j - 1
            /\ SubSeq(completed, 1, j - 1) = SubSeq(run, 1, j - 1)
            /\ restarts_from_first(SubSeq(completed, j, Len(completed)),
                                   Tail(failed), run)

\* The retry loop has just left a phase by `break`.
PhaseSucceeded == pc = "phases" /\ phase_idx >= 1 /\ phase.max_attempts >= 1

\* C3: a phase that succeeds on attempt k after k-1 failed attempts made
\* exactly k runs of its step sequence, k <= max_attempts, each run starting
\* at the phase's first step; the failures do not fail the workflow: an
\* exception leaves a phase only from its last attempt, and once every phase
\* has succeeded the workflow returns with status completed.
C3_RetryRerunsWholePhase ==
  /\ PhaseSucceeded =>
       /\ attempt \in 1..phase.max_attempts
       /\ trace.runs = attempt
       /\ Len(failed_here) = attempt - 1
       /\ restarts_from_first(completed_here, failed_here, full_run(phase.steps))
       /\ exc = NoException
  /\ (pc \in {"except", "raised"} /\ caller = "phases") =>
       attempt = phase.max_attempts /\ trace.runs = attempt
  /\ pc \in {"criteria", "returned"} => exc = NoException /\ trace.exhausted = 0
  /\ pc = "returned" => state.status = "completed"

\* C3 witness: the spec's case, max_attempts 3 and two steps A, B: B failed
\* on attempts 1 and 2, attempt 3 ran A and B, and the workflow completed.
C3_Witness ==
  /\ pc = "returned"
  /\ state.status = "completed"
  /\ state.steps_failed = <<"B", "B">>
  /\ state.steps_completed = <<"A", "A", "A", "B">>
  /\ trace.work = 6
  /\ phase_idx = 1

\* C4: when every attempt of a phase failed, its failure actions (if it has
\* any) ran exactly once, and only then: never after an earlier attempt; the
\* failure propagates, so nothing of a later phase runs, and the workflow
\* ends failed.
C4_ExhaustedPhaseEscalatesOnce ==
  /\ trace.escalations <= 1
  /\ trace.escalations = 1 =>
       /\ trace.exhausted = 1
       /\ phase.failure_actions \in {"escalate", "ill_typed"}
  /\ trace.exhausted >= 1 =>
       /\ trace.exhausted = 1
       /\ pc \in {"except", "raised"}
       /\ attempt = phase.max_attempts
       /\ trace.runs = phase.max_attempts
       /\ exc # NoException
       /\ (phase.failure_actions = "absent") <=> (trace.escalations = 0)
       /\ state.current_phase = phase.name
       /\ pc = "raised" => state.status = "failed"

\* C4 witness: the first phase, max_attempts 3, failed three times, its
\* failure actions ran once and the workflow ended failed.
C4_Witness ==
  /\ pc = "raised"
  /\ phase_idx = 1
  /\ phase.max_attempts = 3
  /\ Len(failed_here) = 3
  /\ phase.failure_actions = "escalate"
  /\ trace.escalations = 1
  /\ state.status = "failed"

\* C5: a call whose required inputs are not all in params raises the
\* missing-parameter error, and raises it before any step is dispatched:
\* steps_completed and steps_failed are empty.
C5_MissingInputBeforeAnyStep ==
  /\ exc[2] = "Missing required parameter" =>
       /\ trace.dispatched = 0
       /\ state.steps_completed = <<>> /\ state.steps_failed = <<>>
  /\ (workflow # NoDocument /\ ~(workflow.required \subseteq params)
        /\ pc \notin {"loaded", "constructed", "try"}) =>
       /\ pc \in {"except", "raised"}
       /\ exc[1] = "ValueError" /\ exc[2] = "Missing required parameter"
       /\ exc[3] \in workflow.required \ params
       /\ trace.dispatched = 0
       /\ state.steps_completed = <<>> /\ state.steps_failed = <<>>

\* C5 witness: a workflow with phases whose required input is missing raised.
C5_Witness ==
  /\ pc = "raised"
  /\ exc = <<"ValueError", "Missing required parameter", "issue">>
  /\ "phases" \in workflow.keys
  /\ state.steps_completed = <<>> /\ state.steps_failed = <<>>

\* A document that lacks name, description or type, or whose type is not
\* "workflow".
InvalidDefinition(d) ==
  d.exists /\ (~({"name", "description", "type"} \subseteq d.fields)
               \/ d.type # "workflow")

\* C6: for such a document execute() raises the definition error out of
\* load: no WorkflowState is created, none is running, no step is dispatched.
C6_InvalidDefinitionRejected ==
  (InvalidDefinition(document) /\ pc # "idle") =>
    /\ pc = "raised"
    /\ exc[1] = "ValueError"
    /\ exc[2] \in {"Missing required field", "Invalid type"}
    /\ heap = <<>> /\ self_state = 0
    /\ trace.dispatched = 0

\* C6 witness: a document with all three fields, phases, and type "agent".
C6_Witness ==
  /\ pc = "raised"
  /\ document.fields = {"name", "description", "type"}
  /\ document.type = "agent"
  /\ "phases" \in document.keys
  /\ exc = <<"ValueError", "Invalid type", "agent">>

\* A document load_workflow accepts.
LoadableDefinition(d) == d.exists /\ ~InvalidDefinition(d)

\* C7: a definition that has both `phases` and `steps` is rejected before
\* execution starts: no step is dispatched and the run never completes.
C7_BothPhasesAndStepsRejected ==
  (LoadableDefinition(document) /\ {"phases", "steps"} \subseteq document.keys) =>
    /\ trace.dispatched = 0
    /\ pc # "returned"

\* C8: a definition that has neither `phases` nor `steps` is rejected by the
\* loader: no WorkflowState is created (so none is set running) and the error
\* is never the missing-parameter one.
C8_NeitherRejectedByLoader ==
  (LoadableDefinition(document) /\ document.keys = {}) =>
    /\ self_state = 0
    /\ exc[2] # "Missing required parameter"

\* The step list a run is in or failed in.
InSteps == pc \in {"steps", "phase_except", "except", "raised"} /\ caller # None

\* C9: a step whose condition evaluates to false is skipped: it is not
\* dispatched (every dispatch appends one name to one of the two lists, and
\* the skipped step's name is in neither), and the steps after it still run:
\* a run that reaches the end of the list has recorded every step that is not
\* skipped.
C9_FalseConditionSkipsStep ==
  /\ self_state > 0 =>
       trace.dispatched = Len(state.steps_completed) + Len(state.steps_failed)
  /\ InSteps =>
       \A i \in 1..Len(steps) :
         is_skipped(steps[i]) =>
           step_name(steps[i]) \notin Range(completed_here) \cup Range(failed_here)
  /\ (pc = "steps" /\ step_idx > Len(steps)) =>
       /\ Len(completed_here) >= Len(full_run(steps))
       /\ SubSeq(completed_here,
                 Len(completed_here) - Len(full_run(steps)) + 1,
                 Len(completed_here)) = full_run(steps)

\* C9 witness: step A has a condition that is false, step B ran after it.
C9_Witness ==
  /\ pc = "steps"
  /\ Len(steps) = 2
  /\ step_idx = 3
  /\ steps[1].condition = "False"
  /\ state.steps_completed = <<"B">>
  /\ state.steps_failed = <<>>

\* A flat step list, or a phase with max_attempts 1.
SingleAttempt ==
  caller = "execute" \/ (caller = "phases" /\ phase.max_attempts = 1)

\* C10: in a flat list or single-attempt phase, when step A_j fails the lists
\* gained exactly: steps_completed the steps before A_j that are not skipped,
\* in order, and steps_failed A_j alone; nothing is dispatched after A_j, and
\* the workflow ends failed.  In a flat list or first phase these are the
\* whole lists.
C10_FirstFailureEndsRun ==
  /\ (InSteps /\ SingleAttempt /\ pc = "steps") => failed_here = <<>>
  /\ (InSteps /\ SingleAttempt /\ exc[1] = "RuntimeError") =>
       failed_here # <<>> /\ exc[3] = step_name(steps[step_idx])
  /\ (InSteps /\ SingleAttempt /\ failed_here # <<>>) =>
       /\ pc # "steps"
       /\ failed_here = <<step_name(steps[step_idx])>>
       /\ completed_here = full_run(SubSeq(steps, 1, step_idx - 1))
       /\ trace.dispatched = Len(state.steps_completed) + Len(state.steps_failed)
       /\ phase_idx <= 1 =>
            /\ state.steps_failed = failed_here
            /\ state.steps_completed = completed_here
       /\ pc = "raised" => state.status = "failed"

\* C10 witness: the spec's case: one phase, max_attempts 1, A a shell command
\* that exits 0, B a shell command that exits 1 under exit_code_equals_0.
C10_Witness ==
  /\ pc = "raised"
  /\ phase_idx = 1
  /\ phase.max_attempts = 1
  /\ Len(steps) = 2
  /\ steps[1].tool = "Bash" /\ steps[2].tool = "Bash"
  /\ steps[2].validation = <<"exit_code_equals_0">>
  /\ result.error = "Validation failed: exit code"
  /\ state.status = "failed"
  /\ state.steps_completed = <<"A">>
  /\ state.steps_failed = <<"B">>

\* Every placeholder of the text names a key of the mapping.
names_only_keys(text, p) ==
  \A i \in 1..Len(text) :
    is_placeholder(text[i]) => param_name(text[i]) \in DOMAIN p

\* No value of the mapping holds a placeholder that names a key of it.
values_name_no_key(p) ==
  \A k \in DOMAIN p : \A i \in 1..Len(p[k]) :
    is_placeholder(p[k][i]) => param_name(p[k][i]) \notin DOMAIN p

Substituted == call.method = "_substitute_params" /\ Len(call.returned) >= 2

unresolvable(condition) == condition \in {"malformed", "non_string"}

\* C12: a step whose condition cannot be evaluated is skipped: it is never
\* dispatched (its name enters neither list) and the error of the evaluation
\* is never the exception in flight.
C12_ConditionErrorIsFalse ==
  InSteps =>
    \A i \in 1..Len(steps) :
      unresolvable(steps[i].condition) =>
        /\ step_name(steps[i]) \notin Range(completed_here) \cup Range(failed_here)
        /\ exc # <<"TypeError", "condition", step_name(steps[i])>>

\* C13: when the failure actions of an exhausted phase raise, what execute()
\* raises is still the step failure, and the workflow is marked failed.
C13_FailureActionDoesNotMask ==
  (pc = "raised" /\ phase.failure_actions = "ill_typed"
      /\ failed_here # <<>>) =>
    /\ exc[1] = "RuntimeError"
    /\ exc[2] = "Step failed"
    /\ state.status = "failed"

\* _execute_step was called on its own and is back.
StepCalled == call.method = "_execute_step" /\ call.returned # <<>>

\* C14: _execute_step hands back an ExecutionResult for every step: when the
\* handler raised, a failed one that carries the message and no exit code.
C14_NoErrorCrossesDispatcher ==
  StepCalled =>
    /\ call.returned[1].status \in StepStatus
    /\ call.dispatched[1].status = "raised" =>
         call.returned[1] =
           ExecutionResult("failed", call.dispatched[1].error, <<>>)

\* C14 witness: a Read step with no `params` key: the handler raises KeyError.
C14_Witness ==
  /\ StepCalled
  /\ call.step.tool = "Read"
  /\ call.step.params = "absent"
  /\ call.dispatched[1].status = "raised"
  /\ call.returned[1] = ExecutionResult("failed", "exception text", <<>>)

\* C15: the result of a shell-command step that timed out is failed, its
\* error is the timeout message and it has no exit code; the result of one
\* that exited non-zero is failed and has the exit code.
C15_TimeoutDistinguishable ==
  (StepCalled /\ call.step.tool = "Bash" /\ call.step.params # "ill_typed") =>
    /\ call.env = "timeout" =>
         call.returned[1] = ExecutionResult("failed", "Command timed out", <<>>)
    /\ call.env \in {"exit_1", "exit_1_silent", "exit_1_error"} =>
         /\ call.returned[1].status = "failed"
         /\ call.returned[1].exit_code = <<1>>

\* One rule on one result.
rule_passes(res, rule) == validate_step_result(res, <<rule>>, 1) = None

\* C16: a dispatch that did not succeed ends in a failed result; a result
\* that is a success comes from a dispatch that succeeded and, when the step
\* has rules, every rule passes on it.
C16_ValidationOnlyFails ==
  StepCalled =>
    /\ call.dispatched[1].status # "success" =>
         call.returned[1].status = "failed"
    /\ call.returned[1].status = "success" =>
         /\ call.dispatched[1].status = "success"
         /\ call.returned[1] = call.dispatched[1]
         /\ call.step.has_validation =>
              \A i \in 1..Len(call.step.validation) :
                rule_passes(call.dispatched[1], call.step.validation[i])

\* C16 witness: a search whose grep exits 1 is a successful dispatch that the
\* rule exit_code_equals_0 turns into a failure.
C16_Witness ==
  /\ StepCalled
  /\ call.step.tool = "Grep"
  /\ call.env = "exit_1"
  /\ call.step.validation = <<"exit_code_equals_0">>
  /\ call.dispatched[1].status = "success"
  /\ call.returned[1] =
       ExecutionResult("failed", "Validation failed: exit code", <<>>)

\* The tool key is absent or names no handler.
is_noop(step) ==
  step.tool \notin {"Bash", "Read", "Grep", "Glob", "Edit", "Write"}

\* No declared rule rejects the result of the no-op.
rules_accept_noop(step) ==
  \/ ~step.has_validation
  \/ validate_step_result(ExecutionResult("success", None, <<>>),
                          step.validation, 1) = None

\* C17: a step with no tool or an unknown one, which no rule rejects, yields
\* success; once the loop has passed it, it is in steps_completed; it is
\* never in steps_failed and never the step a failure is raised for.
C17_UnknownToolIsNoOpSuccess ==
  InSteps =>
    \A i \in 1..Len(steps) :
      (is_noop(steps[i]) /\ rules_accept_noop(steps[i])) =>
        /\ \A env \in Outcomes(steps[i]) :
             execute_step(steps[i], env).status = "success"
        /\ step_name(steps[i]) \notin Range(failed_here)
        /\ exc[1] = "RuntimeError" => exc[3] # step_name(steps[i])
        /\ (is_run(steps[i]) /\ step_idx > i) =>
             step_name(steps[i]) \in Range(completed_here)

\* C17 witness: step A has no tool key; it ran, is completed, and the loop is
\* at step B.
C17_Witness ==
  /\ pc = "steps"
  /\ Len(steps) = 2
  /\ step_idx = 2
  /\ steps[1].tool = "absent"
  /\ is_run(steps[1])
  /\ result = ExecutionResult("success", None, <<>>)
  /\ state.steps_completed = <<"A">>
  /\ state.steps_failed = <<>>

\* C18: once every phase or step has succeeded, what the success_criteria
\* block holds does not matter: no exception comes after the block is read,
\* and execute() returns with status completed.
C18_SuccessCriteriaAdvisory ==
  /\ workflow.success_criteria # "unread" =>
       /\ pc = "returned"
       /\ exc = NoException
       /\ state.status = "completed"
  /\ pc = "returned" => workflow.success_criteria \in SuccessCriteria

\* C18 witness: a run with a step done and an all_of block ends completed.
C18_Witness ==
  /\ pc = "returned"
  /\ workflow.success_criteria = "all_of"
  /\ trace.dispatched > 0
  /\ state.status = "completed"

\* The definition has `steps` and no `phases`.
FlatDefinition ==
  workflow # NoDocument /\ "steps" \in workflow.keys /\ "phases" \notin workflow.keys

\* The position of each recorded name in StepNames.
Positions(names) == [i \in 1..Len(names) |-> Index(StepNames, names[i])]

\* C19: a flat step list is run once and in order: one call of
\* _execute_steps, no retry; the names recorded are at increasing positions
\* of the list, so no step is dispatched twice; at most one step fails, it is
\* the last one dispatched, and the workflow then ends failed.
C19_FlatStepsRunOnce ==
  (FlatDefinition /\ self_state > 0) =>
    /\ trace.runs <= 1
    /\ attempt = 0
    /\ trace.dispatched = Len(state.steps_completed) + Len(state.steps_failed)
    /\ LET at == Positions(state.steps_completed \o state.steps_failed)
       IN  \A i, j \in 1..Len(at) : i < j => at[i] < at[j]
    /\ Len(state.steps_failed) <= 1
    /\ state.steps_failed # <<>> =>
         /\ pc \in {"except", "raised"}
         /\ exc = <<"RuntimeError", "Step failed", state.steps_failed[1]>>
         /\ pc = "raised" => state.status = "failed"

\* C19 witness: a flat list of two steps, the first completed, the second
\* failed, the workflow failed.
C19_Witness ==
  /\ FlatDefinition
  /\ pc = "raised"
  /\ Len(steps) = 2
  /\ state.steps_completed = <<"A">>
  /\ state.steps_failed = <<"B">>
  /\ trace.dispatched = 2
  /\ state.status = "failed"

\* C20: main() exits with 0 exactly when the workflow reached completed; any
\* failure exits with a code that is not 0 and has written to stderr; nothing
\* is written to stderr on success.
C20_ExitCodeReflectsOutcome ==
  /\ pc # "exited" => process = NoProcess
  /\ pc = "exited" =>
       /\ process.exit_code = 0 <=>
            (self_state > 0 /\ state.status = "completed")
       /\ process.exit_code # 0 => process.stderr # None
       /\ process.exit_code = 0 => process.stderr = None
       /\ exc # NoException =>
            (process.exit_code = 1 /\ process.stderr = exc[2])

\* C20 witness: a step failed, main() exited with 1 and the message on stderr.
C20_Witness ==
  /\ pc = "exited"
  /\ self_state > 0
  /\ state.status = "failed"
  /\ state.steps_failed # <<>>
  /\ process = [exit_code |-> 1, stderr |-> "Step failed"]

\* The last n entries of a sequence.
Last(seq, n) == SubSeq(seq, Len(seq) - n + 1, Len(seq))

\* A step of the current phase has been dispatched.
DispatchedInPhase ==
  InSteps /\ caller = "phases" /\ completed_here \o failed_here # <<>>

\* Within the current run of _execute_steps every step before the one the
\* loop is at was recorded completed, in list order, unless it was skipped:
\* a step is reached only after the one before it succeeded or was skipped.
StepsInOrder ==
  InSteps =>
    LET before == full_run(SubSeq(steps, 1, step_idx - 1)) IN
    /\ Len(completed_here) >= Len(before)
    /\ Last(completed_here, Len(before)) = before
    /\ exc[1] = "RuntimeError" =>
         /\ failed_here # <<>>
         /\ Last(failed_here, 1) = <<step_name(steps[step_idx])>>

\* C21 as stated: when a step of a phase is dispatched, the phase is the one
\* the document lists at that position and every phase before it had an
\* attempt that completed successfully; steps run in list order.
C21_PhasesAndStepsInOrder ==
  /\ DispatchedInPhase =>
       /\ state.current_phase = PhaseNames[phase_idx]
       /\ steps = phase.steps
       /\ trace.succeeded = phase_idx - 1
  /\ StepsInOrder

\* C21 amended: when a step of a phase is dispatched, every phase before it
\* either had an attempt that completed successfully or has max_attempts < 1
\* and was passed over without an attempt; none was left after a failure;
\* steps run in list order.
C21_PhasesInOrderOrPassedOver ==
  /\ DispatchedInPhase =>
       /\ state.current_phase = PhaseNames[phase_idx]
       /\ steps = phase.steps
       /\ trace.succeeded + trace.passed_over = phase_idx - 1
       /\ pc \in {"steps", "phase_except"} => trace.exhausted = 0
  /\ StepsInOrder

\* C21 witness: the second phase, after the first succeeded, has run its
\* step A and its step B.
C21_Witness ==
  /\ pc = "steps"
  /\ caller = "phases"
  /\ phase_idx = 2
  /\ trace.succeeded = 1
  /\ step_idx = 3
  /\ state.steps_completed = <<"A", "A", "B">>
  /\ state.steps_failed = <<>>

\* C22: when dispatch reports failed no rule is evaluated: what
\* _execute_step returns is the result dispatch produced, with its error text
\* and its exit code.
C22_NoValidationAfterFailedDispatch ==
  (StepCalled /\ call.dispatched[1].status = "failed") =>
    call.returned[1] = call.dispatched[1]

\* The step declares the rule exit_code_equals_0.
declares_exit_code_rule(step) ==
  step.has_validation /\ "exit_code_equals_0" \in Range(step.validation)

\* C28: a step that declares exit_code_equals_0 succeeds only when the
\* handler reported the exit code 0; a handler that reports no exit code
\* (read, write, glob, edit, no tool) always ends failed, and when its
\* dispatch succeeded the failure is the rule's.
C28_MissingExitCodeFailsRule ==
  (StepCalled /\ declares_exit_code_rule(call.step)) =>
    /\ call.returned[1].status = "success" => call.dispatched[1].exit_code = <<0>>
    /\ call.dispatched[1].exit_code # <<0>> => call.returned[1].status = "failed"
    /\ call.step.tool \in {"Read", "Write", "Glob", "Edit", "absent", "Task"} =>
         /\ call.dispatched[1].exit_code = <<>>
         /\ call.returned[1].status = "failed"
         /\ call.dispatched[1].status = "success" =>
              call.returned[1] =
                ExecutionResult("failed", "Validation failed: exit code", <<>>)

\* C28 witness: a file read that succeeded and declares exit_code_equals_0.
C28_Witness ==
  /\ StepCalled
  /\ call.step.tool = "Read"
  /\ call.step.validation = <<"exit_code_equals_0">>
  /\ call.dispatched[1] = ExecutionResult("success", None, <<>>)
  /\ call.returned[1] =
       ExecutionResult("failed", "Validation failed: exit code", <<>>)

\* The name between the braces of a placeholder, without the whitespace.
name_of(token) ==
  IF token \in {"{{a}}", "{{ a }}"} THEN "a"
  ELSE IF token = "{{b}}" THEN "b" ELSE "c"

\* One call of _substitute_params is back.
SubstitutedOnce == call.method = "_substitute_params" /\ Len(call.returned) >= 1

\* What takes the place of token i of the text: the value as it is, or the
\* token itself.
piece(text, p, i) ==
  IF is_placeholder(text[i]) /\ name_of(text[i]) \in DOMAIN p
    THEN p[name_of(text[i])]
  ELSE <<text[i]>>

RECURSIVE pieces(_, _, _)
pieces(text, p, i) ==
  IF i > Len(text) THEN <<>> ELSE piece(text, p, i) \o pieces(text, p, i + 1)

\* C23: the output of one call is the pieces side by side, each value put in
\* exactly as the mapping holds it: a placeholder inside a value is still
\* there in the output, also when it names a key of the mapping.
C23_SinglePassNoRecursion ==
  SubstitutedOnce =>
    call.returned[1] = pieces(call.text, call.params, 1)

\* C23 witness: {{a}} replaced by a value that holds {{b}}, b being a key:
\* the output still holds {{b}}.
C23_Witness ==
  /\ SubstitutedOnce
  /\ call.text = <<"{{a}}">>
  /\ DOMAIN call.params = {"a", "b"}
  /\ call.params["a"] = <<"{{b}}">>
  /\ call.params["b"] = <<"x">>
  /\ call.returned[1] = <<"{{b}}">>

\* C24: a text whose placeholders all name no key comes back as it is,
\* whitespace inside the braces included; a placeholder that names a key is
\* replaced by the value, with or without whitespace around the name.
C24_AbsentKeptPresentReplaced ==
  SubstitutedOnce =>
    /\ (\A i \in 1..Len(call.text) :
          is_placeholder(call.text[i]) =>
            name_of(call.text[i]) \notin DOMAIN call.params) =>
         call.returned[1] = call.text
    /\ \A i \in 1..Len(call.text) :
         LET before == SubSeq(call.text, 1, i - 1)
             at == Len(pieces(before, call.params, 1))
         IN  IF is_placeholder(call.text[i])
                  /\ name_of(call.text[i]) \in DOMAIN call.params
               THEN SubSeq(call.returned[1], at + 1,
                           at + Len(call.params[name_of(call.text[i])]))
                      = call.params[name_of(call.text[i])]
             ELSE /\ Len(call.returned[1]) > at
                  /\ call.returned[1][at + 1] = call.text[i]

\* C24 witness: "a" is no key and "b" is: {{ a }} is kept with its spaces,
\* {{b}} is replaced.
C24_Witness ==
  /\ SubstitutedOnce
  /\ call.text = <<"{{ a }}", "{{b}}">>
  /\ DOMAIN call.params = {"b"}
  /\ call.params["b"] = <<"x">>
  /\ call.returned[1] = <<"{{ a }}", "x">>

\* C25 as stated: execute() ends, and a definition with phases never has
\* more dispatches than the sum over its phases of max_attempts times the
\* number of steps.  A negative max_attempts lowers that sum although the
\* phase dispatches nothing, so later phases push the count above it.
C25_TerminatesWithinProduct ==
  /\ <>Terminal
  /\ [](phase_idx >= 1 => trace.dispatched <= trace.product)

\* C25: execute() ends, and the dispatches never exceed the number of steps of
\* a flat definition, or the sum over the phases taken of the attempts the
\* retry loop can make (max_attempts, none when it is below 1) times the
\* number of steps of the phase.
C25_TerminatesWithinAttempts ==
  /\ <>Terminal
  /\ [](trace.dispatched <= trace.work)
  /\ [](phase_idx >= 1 /\ trace.passed_over = 0 => trace.work = trace.product)

\* C25 witness: a run over two phases has ended with every attempt of both
\* used up to the last dispatch that the bound allows.
C25_Witness ==
  /\ Terminal
  /\ phase_idx = 2
  /\ trace.passed_over = 0
  /\ trace.dispatched = trace.work
  /\ trace.work = MaxWork
  /\ trace.runs > 1

IsPrefix(a, b) == Len(a) <= Len(b) /\ SubSeq(b, 1, Len(a)) = a

Count(seq, x) == Cardinality({i \in 1..Len(seq) : seq[i] = x})

\* The attempts of the phase just left in which the step at position j
\* succeeded: the last one, and every failed one that failed at a later step.
succeeded_in(j) ==
  1 + Cardinality({i \in 1..Len(failed_here) :
                     \E l \in (j + 1)..Len(phase.steps) :
                       failed_here[i] = step_name(phase.steps[l])})

\* C26: no action removes or changes an entry of steps_completed or
\* steps_failed of any WorkflowState, a retry included; so when a phase has
\* succeeded, a step of it that is run appears in steps_completed once for
\* every attempt in which it succeeded, and a skipped step never.
C26_StepListsAppendOnly ==
  /\ [][/\ Len(heap') >= Len(heap)
        /\ \A i \in 1..Len(heap) :
             /\ IsPrefix(heap[i].steps_completed, heap'[i].steps_completed)
             /\ IsPrefix(heap[i].steps_failed, heap'[i].steps_failed)]_vars
  /\ [](PhaseSucceeded =>
          \A j \in 1..Len(phase.steps) :
            Count(completed_here, step_name(phase.steps[j])) =
              IF is_run(phase.steps[j]) THEN succeeded_in(j) ELSE 0)

\* C26 witness: a phase of two steps has succeeded on its second attempt; A
\* succeeded in both attempts and B in one, and steps_completed holds three
\* entries for two distinct steps.
C26_Witness ==
  /\ PhaseSucceeded
  /\ attempt = 2
  /\ Len(phase.steps) = 2
  /\ failed_here = <<"B">>
  /\ completed_here = <<"A", "A", "B">>
  /\ Len(state.steps_completed) > Len(phase.steps)

\* C27: when execute() has ended, steps_failed of the WorkflowState it made
\* holds one entry for every phase attempt, or run of a flat list, that was
\* ended by the failure of a step, and no other entry.
C27_FailedEntriesCountFailedAttempts ==
  (Terminal /\ self_state > 0) =>
    Len(state.steps_failed) = trace.step_failures

\* C27 witness: the workflow returned completed and steps_failed is not
\* empty: the first attempt of a phase failed at its first step.
C27_Witness ==
  /\ pc = "returned"
  /\ state.status = "completed"
  /\ trace.step_failures = 1
  /\ state.steps_failed = <<"A">>
  /\ state.steps_completed = <<"A">>

\* The loop over the phases takes a phase whose max_attempts is below 1.
TakesPhaseWithoutAttempts ==
  pc = "phases" /\ phase_idx' = phase_idx + 1 /\ phase'.max_attempts < 1

\* C29: taking a phase whose max_attempts is 0 or negative dispatches
\* nothing, records nothing in steps_completed or steps_failed, invokes no
\* failure action and raises nothing: the loop is at once ready for the
\* phase that follows, as after a phase that succeeded.
C29_NoAttemptsPassesAsSuccess ==
  [][TakesPhaseWithoutAttempts =>
       /\ pc' = "phases"
       /\ exc' = NoException
       /\ trace'.dispatched = trace.dispatched
       /\ trace'.escalations = trace.escalations
       /\ trace'.exhausted = trace.exhausted
       /\ heap'[self_state].steps_completed = state.steps_completed
       /\ heap'[self_state].steps_failed = state.steps_failed
       /\ heap'[self_state].status = "running"]_vars

\* C29 witness: the first phase had max_attempts -1 and two steps, the
\* second made one attempt of its one step (the sum of the products is -1
\* and nothing was completed when the second phase began); the workflow
\* returned completed with that step as its only record.
C29_Witness ==
  /\ pc = "returned"
  /\ state.status = "completed"
  /\ phase_idx = 2
  /\ trace.passed_over = 1
  /\ trace.succeeded = 1
  /\ trace.product = 0 - 1
  /\ trace.base_completed = 0
  /\ trace.dispatched = 1
  /\ state.steps_completed = <<"A">>
  /\ state.steps_failed = <<>>

\* execute() raised out of load_workflow.
LoadFailed == pc = "raised" /\ load_workflow(document) # NoException

\* C30: the step of execute() that fails to load the definition changes
\* neither the WorkflowState objects nor the one the engine holds; an engine
\* that has run a workflow before still holds that run's WorkflowState, with
\* its name, status and step lists, and no other has been made.
C30_LoadFailureKeepsHeldState ==
  /\ [][(pc = "idle" /\ load_workflow(document') # NoException) =>
          pc' = "raised" /\ heap' = heap /\ self_state' = self_state]_vars
  /\ [](LoadFailed =>
          /\ self_state = Len(heap)
          /\ self_state = 1 => state = PreviousState)

\* C30 witness: an engine that holds the completed state of workflow
\* "previous" is asked for a document that does not exist.
C30_Witness ==
  /\ LoadFailed
  /\ ~document.exists
  /\ exc[1] = "FileNotFoundError"
  /\ self_state = 1
  /\ state.workflow_name = "previous"
  /\ state.status = "completed"
  /\ state.steps_completed = <<"A">>

====
